---- MODULE Spec2Model ----
\* A model of the bloom filter of bloom-filter/src/lib.rs: build, add,
\* is_present and the private hash, with Rust's integer widths kept.
EXTENDS Integers, Sequences, FiniteSets, TLC

VARIABLES
  overflow_checks,       \* build profile: TRUE = arithmetic overflow panics (debug), FALSE = it wraps (release)
  build_args,            \* the arguments build was called with
  build_result,          \* "none" before the call, then "Ok", "Err" or "panic"
  bits,                  \* BloomFilter.bits, a BitVec: a sequence of BOOLEAN, position i at bits[i + 1]
  hasher_count,          \* BloomFilter.hasher_count: usize
  hasher_range_in_bits,  \* BloomFilter.hasher_range_in_bits: u32
  op,                    \* the last call on the filter: <<name, key>>
  result,                \* what the last call returned: "unit", "No", "Maybe", or "panic"
  added                  \* the keys passed to add so far

vars == << overflow_checks, build_args, build_result, bits, hasher_count,
           hasher_range_in_bits, op, result, added >>

----------------------------------------------------------------------------
\* Bounds of the model.

\* build is called with every pair of (0..MaxIndexBits) \X (0..MaxHasherCount),
\* and with the pairs BuildArgs adds.
MaxIndexBits == 3

MaxHasherCount == 3

----------------------------------------------------------------------------
\* Program constants.

FULL_HASH_BYTES == 512

\* The width of usize on the 64-bit targets.
USIZE_BITS == 64

----------------------------------------------------------------------------
\* Sha512::new().update(t).finalize() on the keys the model uses.

\* SHA-512(""), the 64 digest bytes in output order.
DigestEmpty ==
  << 207, 131, 225, 53, 126, 239, 184, 189, 241, 84, 40, 80, 214, 109, 128, 7,
     214, 32, 228, 5, 11, 87, 21, 220, 131, 244, 169, 33, 211, 108, 233, 206,
     71, 208, 209, 60, 93, 133, 242, 176, 255, 131, 24, 210, 135, 126, 236, 47,
     99, 185, 49, 189, 71, 65, 122, 129, 165, 56, 50, 122, 249, 39, 218, 62 >>

\* SHA-512("foo"), the 64 digest bytes in output order.
DigestFoo ==
  << 247, 251, 186, 110, 6, 54, 248, 144, 229, 111, 187, 243, 40, 62, 82, 76,
     111, 163, 32, 74, 226, 152, 56, 45, 98, 71, 65, 208, 220, 102, 56, 50,
     110, 40, 44, 65, 190, 94, 66, 84, 216, 130, 7, 114, 197, 81, 138, 44,
     90, 140, 12, 127, 126, 218, 25, 89, 74, 126, 181, 57, 69, 62, 30, 215 >>

\* SHA-512("bar"), the 64 digest bytes in output order.
DigestBar ==
  << 216, 44, 78, 181, 38, 28, 185, 200, 170, 152, 85, 237, 214, 125, 27, 209,
     4, 130, 244, 21, 41, 133, 141, 146, 80, 148, 209, 115, 250, 102, 42, 169,
     31, 243, 155, 197, 177, 136, 97, 82, 115, 72, 64, 33, 223, 177, 111, 216,
     40, 76, 246, 132, 204, 240, 252, 121, 91, 227, 170, 47, 193, 230, 193, 129 >>

\* SHA-512("Green eggs and ham"), the 64 digest bytes in output order.
DigestHam ==
  << 71, 171, 161, 15, 246, 108, 37, 47, 190, 65, 207, 138, 35, 246, 106, 126,
     90, 235, 168, 47, 12, 12, 217, 125, 118, 133, 238, 245, 236, 129, 3, 234,
     81, 124, 224, 71, 34, 136, 170, 10, 185, 54, 234, 251, 0, 211, 161, 134,
     75, 82, 55, 146, 173, 219, 132, 190, 252, 128, 227, 71, 49, 140, 174, 114 >>

\* SHA-512("Green eggs and jam"), the 64 digest bytes in output order.
DigestJam ==
  << 26, 29, 143, 248, 9, 223, 147, 199, 160, 98, 5, 55, 30, 102, 54, 86,
     80, 199, 246, 244, 33, 10, 102, 175, 235, 240, 154, 93, 190, 84, 213, 35,
     72, 99, 1, 171, 108, 249, 118, 30, 186, 155, 172, 221, 11, 36, 137, 138,
     199, 41, 232, 242, 179, 123, 246, 157, 105, 162, 36, 222, 252, 193, 160, 61 >>

Keys == { "", "foo", "bar", "Green eggs and ham", "Green eggs and jam" }

Sha512(t) ==
  CASE t = ""                   -> DigestEmpty
    [] t = "foo"                -> DigestFoo
    [] t = "bar"                -> DigestBar
    [] t = "Green eggs and ham" -> DigestHam
    [] t = "Green eggs and jam" -> DigestJam

----------------------------------------------------------------------------
\* Rust's fixed-width integers, kept as 16-bit limbs, most significant first:
\* a u32 is two limbs and a usize is USIZE_BITS / 16 = 4 limbs.  A number that
\* only counts loop iterations or bytes is a natural number.

Limb == 2 ^ 16

\* The u32 n, for n < 2^31.
U32(n) == << n \div Limb, n % Limb >>

\* The usize n, for n < 2^31.
Usize(n) == [k \in 1..(USIZE_BITS \div 16) |->
               IF k = USIZE_BITS \div 16 THEN n % Limb
               ELSE IF k = USIZE_BITS \div 16 - 1 THEN n \div Limb
               ELSE 0]

\* x * y for limbs x and y, as the two limbs of the product.
Mul16(x, y) ==
  LET t == (x \div 256) * y
      s == (t % 256) * 256 + (x % 256) * y
  IN  << (t \div 256) + (s \div Limb), s % Limb >>

\* a * b on u32: the product modulo 2^32 and whether it overflowed.
MulU32(a, b) ==
  LET p  == Mul16(a[2], b[2])
      m1 == Mul16(a[1], b[2])
      m2 == Mul16(a[2], b[1])
      s  == m1[2] + m2[2] + p[1]
  IN  [overflow |-> (a[1] * b[1] > 0) \/ (m1[1] + m2[1] + (s \div Limb) > 0),
       value    |-> << s % Limb, p[2] >>]

\* a < b for two numbers of the same number of limbs.
Lt(a, b) ==
  \E k \in 1..Len(a) :
    /\ a[k] < b[k]
    /\ \A j \in 1..(k - 1) : a[j] = b[j]

\* n as u32: the low 32 bits of a usize.
AsU32(n) == << n[Len(n) - 1], n[Len(n)] >>

\* 2_usize.pow(n): the power modulo 2^USIZE_BITS, as the length of a vector,
\* and whether it overflowed.
Pow2Usize(n) ==
  IF n >= USIZE_BITS THEN [overflow |-> TRUE, value |-> 0]
  ELSE [overflow |-> FALSE, value |-> 2 ^ n]

\* (v << 1) + bit on usize: the top bit is shifted out, and the sum cannot
\* carry because the shift leaves the low bit clear.
ShlAdd(v, bit) ==
  [k \in 1..Len(v) |->
     (2 * v[k] + (IF k = Len(v) THEN bit ELSE v[k + 1] \div (Limb \div 2))) % Limb]

\* The position a usize in the bounds of a vector denotes.
Position(i) == i[Len(i) - 1] * Limb + i[Len(i)]

\* The number of iterations a loop over 0..n is given: n, or 2^30 where n is
\* larger (a loop that long ends sooner, at a panic).
Fuel(n) ==
  IF Lt(n, Usize(2 ^ 30)) THEN Position(n) ELSE 2 ^ 30

----------------------------------------------------------------------------
\* bit_vec::BitVec

\* BitVec::from_elem(nbits, false)
BitVecFromElem(nbits, b) == [i \in 1..nbits |-> b]

\* i < self.nbits
InBounds(bv, i) == Lt(i, Usize(Len(bv)))

\* BitVec::set(i, x), for i in bounds
BitVecSet(bv, i, x) == [bv EXCEPT ![Position(i) + 1] = x]

\* BitVec::get(i), for i in bounds
BitVecGet(bv, i) == bv[Position(i) + 1]

----------------------------------------------------------------------------
\* BloomFilter

NoFilter == [bits |-> << >>, hasher_count |-> Usize(0), hasher_range_in_bits |-> 0]

build(checks, range_in_bits, count) ==
  LET needed == MulU32(U32(range_in_bits), AsU32(count))
      nbits  == Pow2Usize(range_in_bits)
  IN  IF needed.overflow /\ checks
        THEN [outcome |-> "panic", filter |-> NoFilter]
      ELSE IF Lt(U32(FULL_HASH_BYTES), needed.value)
        THEN [outcome |-> "Err", filter |-> NoFilter]
      ELSE IF nbits.overflow /\ checks
        THEN [outcome |-> "panic", filter |-> NoFilter]
      ELSE [outcome |-> "Ok",
            filter  |-> [bits |-> BitVecFromElem(nbits.value, FALSE),
                         hasher_count |-> count,
                         hasher_range_in_bits |-> range_in_bits]]

\* The body of the loop over 0..hasher_range_in_bits: read the digest bit
\* under the cursor, bit (full_hash_ptr % 8) of the byte
\* full_hash[full_hash.len() - full_hash_ptr / 8 - 1], and shift it into the
\* hasher's value.  Past the first byte the subtraction underflows (a panic
\* with overflow checks) or wraps to an index out of the array's bounds (a
\* panic without them).
ReadBit(full_hash, r) ==
  LET byte_index  == r.full_hash_ptr \div 8
      bit_in_byte == r.full_hash_ptr % 8
      bit_mask    == 2 ^ bit_in_byte
  IN  IF Len(full_hash) < byte_index + 1
        THEN [r EXCEPT !.panic = TRUE]
        ELSE LET bit == (full_hash[Len(full_hash) - byte_index - 1 + 1] \div bit_mask) % 2
             IN  [panic         |-> FALSE,
                  done          |-> r.done + 1,
                  hasher_value  |-> ShlAdd(r.hasher_value, bit),
                  full_hash_ptr |-> r.full_hash_ptr + 1]

RECURSIVE HasherValue(_, _, _, _)
\* for _ in 0..self.hasher_range_in_bits: the loop from the state r, given
\* fuel iterations; it ends at its bound or at a panic.  The iterations are
\* run as two halves, one after the other, which keeps the nesting of the
\* evaluation shallow; the loops below are written the same way.
HasherValue(self, full_hash, r, fuel) ==
  IF r.panic \/ r.done = self.hasher_range_in_bits THEN r
  ELSE IF fuel = 1 THEN ReadBit(full_hash, r)
  ELSE HasherValue(self, full_hash,
                   HasherValue(self, full_hash, r, fuel \div 2), fuel - fuel \div 2)

\* The body of the loop over 0..hasher_count: one hasher's position.
Hasher(self, full_hash, c) ==
  LET r == HasherValue(self, full_hash,
                       [panic |-> FALSE, done |-> 0, hasher_value |-> Usize(0),
                        full_hash_ptr |-> c.full_hash_ptr],
                       self.hasher_range_in_bits)
  IN  [panic              |-> r.panic,
       bloom_hasher_index |-> c.bloom_hasher_index + 1,
       full_hash_ptr      |-> r.full_hash_ptr,
       computed_hash      |-> IF r.panic THEN c.computed_hash
                              ELSE Append(c.computed_hash, r.hasher_value)]

RECURSIVE ComputedHash(_, _, _, _)
\* for bloom_hasher_index in 0..self.hasher_count
ComputedHash(self, full_hash, c, fuel) ==
  IF c.panic \/ ~Lt(Usize(c.bloom_hasher_index), self.hasher_count) THEN c
  ELSE IF fuel = 1 THEN Hasher(self, full_hash, c)
  ELSE ComputedHash(self, full_hash,
                    ComputedHash(self, full_hash, c, fuel \div 2), fuel - fuel \div 2)

hash(self, t) ==
  ComputedHash(self, Sha512(t),
               [panic |-> FALSE, bloom_hasher_index |-> 0, full_hash_ptr |-> 0,
                computed_hash |-> << >>],
               Fuel(self.hasher_count))

\* SetBit with the bit flipped instead of set.
SetBitFlipping(t_hash, a) ==
  LET i == t_hash[a.done + 1]
  IN  IF ~InBounds(a.bits, i) THEN [a EXCEPT !.panic = TRUE]
      ELSE [panic |-> FALSE, done |-> a.done + 1,
            bits |-> BitVecSet(a.bits, i, ~BitVecGet(a.bits, i))]

\* self.bits.set(i, true) for the next i of t_hash; set panics on an index out
\* of bounds.
SetBit(t_hash, a) ==
  LET i == t_hash[a.done + 1]
  IN  IF ~InBounds(a.bits, i) THEN [a EXCEPT !.panic = TRUE]
      ELSE [panic |-> FALSE, done |-> a.done + 1, bits |-> BitVecSet(a.bits, i, TRUE)]

RECURSIVE SetEach(_, _, _)
\* for i in t_hash { self.bits.set(i, true) }
SetEach(t_hash, a, fuel) ==
  IF a.panic \/ a.done = Len(t_hash) THEN a
  ELSE IF fuel = 1 THEN SetBit(t_hash, a)
  ELSE SetEach(t_hash, SetEach(t_hash, a, fuel \div 2), fuel - fuel \div 2)

\* add that sets the key's bits in a cleared copy of the bit array.
add_clearing(self, t) ==
  LET t_hash == hash(self, t)
  IN  IF t_hash.panic THEN [panic |-> TRUE, bits |-> self.bits]
      ELSE LET a == SetEach(t_hash.computed_hash,
                            [panic |-> FALSE, done |-> 0,
                             bits |-> BitVecFromElem(Len(self.bits), FALSE)],
                            Len(t_hash.computed_hash))
           IN  [panic |-> a.panic, bits |-> a.bits]

add(self, t) ==
  LET t_hash == hash(self, t)
  IN  IF t_hash.panic THEN [panic |-> TRUE, bits |-> self.bits]
      ELSE LET a == SetEach(t_hash.computed_hash,
                            [panic |-> FALSE, done |-> 0, bits |-> self.bits],
                            Len(t_hash.computed_hash))
           IN  [panic |-> a.panic, bits |-> a.bits]

\* CheckBit with the test of the bit inverted.
CheckBitInverted(bv, t_hash, p) ==
  LET i == t_hash[p.done + 1]
  IN  IF ~InBounds(bv, i) THEN [p EXCEPT !.returned = "panic"]
      ELSE IF BitVecGet(bv, i) THEN [p EXCEPT !.returned = "No"]
      ELSE [p EXCEPT !.done = p.done + 1]

\* if !self.bits.get(i).expect(..) { return No } for the next i of t_hash;
\* get is None, and expect panics, on an index out of bounds.
CheckBit(bv, t_hash, p) ==
  LET i == t_hash[p.done + 1]
  IN  IF ~InBounds(bv, i) THEN [p EXCEPT !.returned = "panic"]
      ELSE IF ~BitVecGet(bv, i) THEN [p EXCEPT !.returned = "No"]
      ELSE [p EXCEPT !.done = p.done + 1]

RECURSIVE CheckEach(_, _, _, _)
\* for i in t_hash { .. }
CheckEach(bv, t_hash, p, fuel) ==
  IF p.returned # "" \/ p.done = Len(t_hash) THEN p
  ELSE IF fuel = 1 THEN CheckBit(bv, t_hash, p)
  ELSE CheckEach(bv, t_hash, CheckEach(bv, t_hash, p, fuel \div 2), fuel - fuel \div 2)

is_present(self, t) ==
  LET t_hash == hash(self, t)
  IN  IF t_hash.panic THEN "panic"
      ELSE LET p == CheckEach(self.bits, t_hash.computed_hash,
                              [returned |-> "", done |-> 0],
                              Len(t_hash.computed_hash))
           IN  IF p.returned # "" THEN p.returned ELSE "Maybe"

----------------------------------------------------------------------------
\* The calls a caller can make.

\* The arguments build is called with: every small pair, the pairs of the
\* tests, and pairs at the edges of the capacity check and of the integer
\* widths.
BuildArgs ==
  { [range_in_bits |-> i, count |-> Usize(h)] :
      i \in 0..MaxIndexBits, h \in 0..MaxHasherCount }
  \cup
  { [range_in_bits |-> 4,     count |-> Usize(2)],
    [range_in_bits |-> 4,     count |-> Usize(6)],
    [range_in_bits |-> 200,   count |-> Usize(7)],
    [range_in_bits |-> 100,   count |-> Usize(6)],
    [range_in_bits |-> 64,    count |-> Usize(8)],
    [range_in_bits |-> 1,     count |-> Usize(513)],
    [range_in_bits |-> 513,   count |-> Usize(1)],
    [range_in_bits |-> 64,    count |-> Usize(1)],
    [range_in_bits |-> 100,   count |-> Usize(1)],
    [range_in_bits |-> 1000,  count |-> Usize(0)],
    [range_in_bits |-> 65536, count |-> Usize(65536)],
    [range_in_bits |-> 8,     count |-> << 0, 1, 0, 0 >>] }

bf == [bits |-> bits, hasher_count |-> hasher_count,
       hasher_range_in_bits |-> hasher_range_in_bits]

\* A filter exists and no call on it has panicked.
Alive == build_result = "Ok" /\ result # "panic"

Init ==
  /\ overflow_checks \in BOOLEAN
  /\ build_args = [range_in_bits |-> 0, count |-> Usize(0)]
  /\ build_result = "none"
  /\ bits = NoFilter.bits
  /\ hasher_count = NoFilter.hasher_count
  /\ hasher_range_in_bits = NoFilter.hasher_range_in_bits
  /\ op = << "none", "" >>
  /\ result = "none"
  /\ added = {}

Build ==
  /\ build_result = "none"
  /\ \E a \in BuildArgs :
       LET r == build(overflow_checks, a.range_in_bits, a.count)
       IN  /\ build_args' = a
           /\ build_result' = r.outcome
           /\ bits' = r.filter.bits
           /\ hasher_count' = r.filter.hasher_count
           /\ hasher_range_in_bits' = r.filter.hasher_range_in_bits
  /\ UNCHANGED << overflow_checks, op, result, added >>

Add ==
  /\ Alive
  /\ \E t \in Keys :
       LET r == add(bf, t)
       IN  /\ bits' = r.bits
           /\ result' = IF r.panic THEN "panic" ELSE "unit"
           /\ op' = << "add", t >>
           /\ added' = added \cup {t}
  /\ UNCHANGED << overflow_checks, build_args, build_result, hasher_count, hasher_range_in_bits >>

IsPresent ==
  /\ Alive
  /\ \E t \in Keys :
       /\ result' = is_present(bf, t)
       /\ op' = << "is_present", t >>
  /\ UNCHANGED << overflow_checks, build_args, build_result, bits, hasher_count,
                  hasher_range_in_bits, added >>

Next == Build \/ Add \/ IsPresent

Spec == Init /\ [][Next]_vars

----------------------------------------------------------------------------
\* What the properties below read off a state.

\* build has returned a filter.
Built == build_result = "Ok"

\* range_in_bits * count > n as numbers, for n < 2^16: a count above n makes
\* it so for any range_in_bits >= 1, a count up to n is small enough to divide by.
ProductExceeds(range_in_bits, count, n) ==
  IF Lt(Usize(n), count) THEN range_in_bits >= 1
  ELSE Position(count) >= 1 /\ range_in_bits > n \div Position(count)

\* Logical digest bit p: bit (p mod 8), counted from the least significant
\* bit, of digest byte number 63 - floor(p / 8).
LogicalBit(full_hash, p) == (full_hash[(63 - p \div 8) + 1] \div (2 ^ (p % 8))) % 2

\* Bit b, counted from the least significant bit, of the usize v; 0 above its width.
UsizeBit(v, b) ==
  IF b >= USIZE_BITS THEN 0
  ELSE (v[Len(v) - b \div 16] \div (2 ^ (b % 16))) % 2

\* Bit b of the unsigned integer formed most-significant-bit-first from the
\* logical bits j * width through (j + 1) * width - 1; 0 above its width.
RunBit(full_hash, j, width, b) ==
  IF b >= width THEN 0
  ELSE LogicalBit(full_hash, (j + 1) * width - 1 - b)

\* The larger of two numbers.
Max(a, b) == IF a >= b THEN a ELSE b

\* Every bit of the bit array at the slot indices of key t is true.
AllSlotsSet(t) ==
  LET h == hash(bf, t)
  IN  /\ ~h.panic
      /\ \A j \in 1..Len(h.computed_hash) :
           InBounds(bits, h.computed_hash[j]) /\ BitVecGet(bits, h.computed_hash[j])

\* At least one bit of the bit array at the slot indices of key t is false.
SomeSlotClear(t) ==
  LET h == hash(bf, t)
  IN  /\ ~h.panic
      /\ \E j \in 1..Len(h.computed_hash) :
           InBounds(bits, h.computed_hash[j]) /\ ~BitVecGet(bits, h.computed_hash[j])

----------------------------------------------------------------------------
\* C1. No false negatives: on every filter build returned, after any calls of
\* add, is_present(k) returns Maybe for every key k that was passed to add.
NoFalseNegatives ==
  Built => \A k \in added : is_present(bf, k) = "Maybe"

\* C2. Capacity rejection: whenever the product index_bits * hasher_count of
\* the arguments is greater than 512, build returns the capacity error.
CapacityRejection ==
  (build_result # "none"
     /\ ProductExceeds(build_args.range_in_bits, build_args.count, FULL_HASH_BYTES))
  => build_result = "Err"

\* C3. Capacity acceptance: whenever index_bits * hasher_count <= 512, build
\* succeeds with a bit array of length exactly 2^index_bits, every bit false,
\* holding the given index_bits and hasher_count.  (A length is a usize, so it
\* is 2^index_bits only for index_bits < USIZE_BITS.)
CapacityAcceptance ==
  (build_result # "none" /\ op[1] = "none"
     /\ ~ProductExceeds(build_args.range_in_bits, build_args.count, FULL_HASH_BYTES))
  => /\ build_result = "Ok"
     /\ hasher_range_in_bits < USIZE_BITS
     /\ Len(bits) = 2 ^ hasher_range_in_bits
     /\ \A i \in 1..Len(bits) : bits[i] = FALSE
     /\ hasher_range_in_bits = build_args.range_in_bits
     /\ hasher_count = build_args.count

\* C4. is_present(k) returns Maybe exactly when every bit at the slot indices
\* hash(k) is true, No exactly when at least one of them is false, and returns
\* nothing else.
IsPresentIffAllSlotsSet ==
  op[1] = "is_present" =>
    /\ result = "Maybe" <=> AllSlotsSet(op[2])
    /\ result = "No" <=> SomeSlotClear(op[2])
    /\ result \in { "Maybe", "No", "panic" }

\* C4 witness: is_present has answered Maybe for a key that was never added,
\* on a filter with more than one slot per key, and No for none.
IsPresentFalsePositive ==
  /\ op[1] = "is_present" /\ result = "Maybe"
  /\ op[2] \notin added
  /\ Len(hash(bf, op[2]).computed_hash) >= 2
  /\ \E i \in 1..Len(bits) : ~bits[i]

\* C5. add and is_present have no error paths: on every filter build returned
\* and for every key, both complete without a panic, neither indexing the bit
\* array out of range nor reading past the end of the digest.
NoErrorPaths ==
  Built => /\ result # "panic"
           /\ \A k \in Keys : ~hash(bf, k).panic
           /\ \A k \in Keys : ~add(bf, k).panic /\ is_present(bf, k) # "panic"

\* C6. Idempotence of insertion: from every reachable filter state and for
\* every key k, the bit array after add(k); add(k) is the bit array after add(k).
AddIdempotent ==
  Built => \A k \in Keys :
             \A once \in { add(bf, k) } :
               add([bf EXCEPT !.bits = once.bits], k).bits = once.bits

\* C6 witness: a key has just been added to a filter of several slots whose
\* bit array holds set and clear bits, so a second add of a key meets bits it
\* has set and another key's add still changes the array.
AddedToPartlyFilledFilter ==
  /\ op[1] = "add" /\ result = "unit"
  /\ Len(hash(bf, op[2]).computed_hash) >= 2
  /\ add(bf, op[2]).bits = bits
  /\ \E k \in Keys : add(bf, k).bits # bits

\* C7. Monotonic state: in every step on a filter no true bit becomes false,
\* the bit array keeps its length, hasher_count and index_bits do not change,
\* and the bits change only in a step of add.
MonotonicState ==
  [][Built =>
       /\ Len(bits') = Len(bits)
       /\ \A i \in 1..Len(bits) : bits[i] => bits'[i]
       /\ hasher_count' = hasher_count
       /\ hasher_range_in_bits' = hasher_range_in_bits
       /\ bits' # bits => op'[1] = "add"]_vars

\* C7 witness: is_present has run on a filter in which add has set bits before.
QueriedAfterAdd ==
  /\ op[1] = "is_present"
  /\ added # {}
  /\ \E i \in 1..Len(bits) : bits[i]
  /\ \E i \in 1..Len(bits) : ~bits[i]

\* C8. Index range: on every filter build returned and for every key, hash
\* returns exactly hasher_count values, each in [0, 2^index_bits) and so a
\* valid position of the filter's bit array.
IndexRange ==
  Built => \A k \in Keys :
             LET h == hash(bf, k)
             IN  /\ ~h.panic
                 /\ Usize(Len(h.computed_hash)) = hasher_count
                 /\ \A j \in 1..Len(h.computed_hash) :
                      /\ \A b \in hasher_range_in_bits..(USIZE_BITS - 1) :
                           UsizeBit(h.computed_hash[j], b) = 0
                      /\ InBounds(bits, h.computed_hash[j])

\* C9. Digest bit consumption: slot j of hash is the unsigned integer formed
\* most-significant-bit-first from the logical digest bits j * index_bits
\* through (j + 1) * index_bits - 1, and the cursor ends at exactly
\* index_bits * hasher_count.
DigestBitConsumption ==
  Built => \A k \in Keys :
             LET h == hash(bf, k)
             IN  /\ ~h.panic
                 /\ \/ hasher_range_in_bits = 0 /\ h.full_hash_ptr = 0
                    \/ /\ Lt(hasher_count, Usize(Limb))
                       /\ h.full_hash_ptr = hasher_range_in_bits * Position(hasher_count)
                 /\ \A j \in 1..Len(h.computed_hash) :
                      \A b \in 0..(Max(hasher_range_in_bits, USIZE_BITS) - 1) :
                        UsizeBit(h.computed_hash[j], b)
                          = RunBit(Sha512(k), j - 1, hasher_range_in_bits, b)

\* C10. Empty filter reports absence: on every filter build returned, before
\* any add, is_present returns No for every key.
EmptyFilterReportsAbsence ==
  (Built /\ added = {}) => \A k \in Keys : is_present(bf, k) = "No"

====
